---- MODULE Spec2Model ----
(***************************************************************************)
(* RunStan of regression_pystan_model2_corr_cells_unbounded_hyp.py as a    *)
(* state machine: one action per stage of the function body.  The caller's *)
(* three tables and the persisted fit file outlive a call; everything else *)
(* is a local of the call in progress.                                     *)
(*                                                                         *)
(* Numbers.  Python indices are kept 0-based as in the source; a TLA+      *)
(* sequence is 1-based, so element k of a Python array a is a[k+1].        *)
(* A float that may be NaN is a sequence: <<v>> is the number v and <<>>   *)
(* is NaN (see FAdd, FMul, FEq).  Posterior samples are multiples of the   *)
(* number of draws, so that a posterior mean is an exact integer.          *)
(***************************************************************************)
EXTENDS Integers, Sequences, FiniteSets, TLC

\* ---------------------------------------------------------------- bounds
MaxRec == 3
NDraws == 2
EqIds == {3, 5}
StaIds == {7, 8}
CellNameSeq == <<"A", "B">>
CellPatterns == {"zero", "all"}
IdSchemes == {"position", "onebased"}

\* ----------------------------------------------------- program constants
col_names_hyp ==
  << "dc_0", "ell_1e", "ell_1as", "omega_1e", "omega_1as", "omega_1bs",
     "mu_cap", "ell_ca1p", "omega_ca1p", "omega_ca2p", "phi_0", "tau_0" >>
NHyp == Len(col_names_hyp)
GroupPars == <<"dc_1e", "dc_1as", "dc_1bs", "c_cap", "dB">>

\* ---------------------------------------------------------------- helpers
Range(s) == {s[i] : i \in DOMAIN s}

RECURSIVE SeqSum(_)
SeqSum(s) == IF s = <<>> THEN 0 ELSE s[1] + SeqSum(Tail(s))

Min(S) == CHOOSE x \in S : \A y \in S : x <= y

\* the elements of a finite set of integers in ascending order
SortedSeq(S) ==
  CHOOSE s \in [1..Cardinality(S) -> S] :
    \A i, j \in 1..Cardinality(S) : i < j => s[i] < s[j]

\* a sequence of integers in ascending order (np.sort)
RECURSIVE Insert(_, _)
Insert(x, s) ==
  IF s = <<>> THEN <<x>>
  ELSE IF x <= s[1] THEN <<x>> \o s ELSE <<s[1]>> \o Insert(x, Tail(s))
RECURSIVE Sort(_)
Sort(s) == IF s = <<>> THEN <<>> ELSE Insert(s[1], Sort(Tail(s)))

\* floats with NaN
NaN == <<>>
F(v) == <<v>>
IsNaN(a) == a = NaN
FAdd(a, b) == IF IsNaN(a) \/ IsNaN(b) THEN NaN ELSE F(a[1] + b[1])
FSub(a, b) == IF IsNaN(a) \/ IsNaN(b) THEN NaN ELSE F(a[1] - b[1])
FMul(a, b) == IF IsNaN(a) \/ IsNaN(b) THEN NaN ELSE F(a[1] * b[1])
\* IEEE comparison: NaN compares unequal to everything, itself included
FEq(a, b) == ~IsNaN(a) /\ ~IsNaN(b) /\ a[1] = b[1]
FGt(a, b) == ~IsNaN(a) /\ ~IsNaN(b) /\ a[1] > b[1]
RECURSIVE FSum(_)
FSum(s) == IF s = <<>> THEN F(0) ELSE FAdd(s[1], FSum(Tail(s)))
\* pandas sum: skipna=True, the sum of no number is 0
RECURSIVE FSumSkipNA(_)
FSumSkipNA(s) ==
  IF s = <<>> THEN F(0)
  ELSE IF IsNaN(s[1]) THEN FSumSkipNA(Tail(s))
  ELSE FAdd(s[1], FSumSkipNA(Tail(s)))

\* a variant of UniqueValues: the distinct keys as they first occur, unsorted
RECURSIVE Unsorted(_, _)
Unsorted(keys, seen) ==
  IF keys = <<>> THEN <<>>
  ELSE IF keys[1] \in seen THEN Unsorted(Tail(keys), seen)
  ELSE <<keys[1]>> \o Unsorted(Tail(keys), seen \cup {keys[1]})
UniqueValuesUnsorted(keys) == Unsorted(keys, {})

\* np.unique(keys, return_index=True, return_inverse=True): the distinct keys
\* in ascending order, the row of the first occurrence of each, and for each
\* row the position of its key among the distinct keys
UniqueValues(keys) == SortedSeq(Range(keys))
UniqueIndex(keys) ==
  LET vals == UniqueValues(keys)
  IN [k \in 1..Len(vals) |-> Min({r \in 1..Len(keys) : keys[r] = vals[k]}) - 1]
\* a variant of UniqueInverse: the row of the key's first occurrence, taken for
\* its position among the distinct keys
UniqueInverseAsFirstRow(keys) ==
  [r \in 1..Len(keys) |-> Min({q \in 1..Len(keys) : keys[q] = keys[r]}) - 1]
UniqueInverse(keys) ==
  LET vals == UniqueValues(keys)
  IN [r \in 1..Len(keys) |->
        (CHOOSE k \in 1..Len(vals) : vals[k] = keys[r]) - 1]

\* a[idx] for an array a and an array idx of 0-based positions
Take(a, idx) == [k \in 1..Len(idx) |-> a[idx[k] + 1]]
AddOne(inv) == [r \in 1..Len(inv) |-> inv[r] + 1]

\* ------------------------------------------------------------------ arrays
\* A 2-d numpy array is its shape and its rows: [nrow, ncol, at], at[i][j]
\* the entry of row i and column j.
Transpose(A) ==
  [nrow |-> A.ncol, ncol |-> A.nrow,
   at |-> [i \in 1..A.ncol |-> [j \in 1..A.nrow |-> A.at[j][i]]]]
\* np.concatenate((A, B), axis=1); defined when the row counts agree
Concat1(A, B) ==
  [nrow |-> A.nrow, ncol |-> A.ncol + B.ncol,
   at |-> [i \in 1..A.nrow |-> A.at[i] \o B.at[i]]]
\* ndarray.flatten(): the entries in row-major order
RECURSIVE FlattenRows(_)
FlattenRows(rows) ==
  IF rows = <<>> THEN <<>> ELSE rows[1] \o FlattenRows(Tail(rows))
Flatten(A) == FlattenRows(A.at)
\* np.stack(vs, axis=1) of vectors of one length
Stack1(vs, len) ==
  [nrow |-> len, ncol |-> Len(vs),
   at |-> [i \in 1..len |-> [j \in 1..Len(vs) |-> vs[j][i]]]]
Column(A, j) == [i \in 1..A.nrow |-> A.at[i][j]]
EmptyArr == [nrow |-> 0, ncol |-> 0, at |-> <<>>]

\* ------------------------------------------------------------ input tables
\* A DataFrame is its index name ("" for the default RangeIndex), the set of
\* its column names and its rows in order; a row carries its key whether the
\* key is a column or the index.
RsnOf(r) == 10 * r
FlatColumns == {"rsn", "eqid", "ssn", "eqX", "staX", "res"}
FlatRow(r, key) ==
  [rsn |-> RsnOf(r), eqid |-> key[1], ssn |-> key[2],
   eqX |-> 100 * key[1] + r, staX |-> 100 * key[2] + r, res |-> 7 * r - 10]
MakeFlat(keys) ==
  [index |-> "", columns |-> FlatColumns,
   rows |-> [r \in 1..Len(keys) |-> FlatRow(r, keys[r])]]

CellNames(n) == {CellNameSeq[j] : j \in 1..n}
CellPos(name) == CHOOSE j \in 1..Len(CellNameSeq) : CellNameSeq[j] = name
PathDist(r, j, pat) == IF pat[j] = "zero" THEN 0 ELSE 2 * r + j
DistRow(r, n, pat) ==
  [rsn |-> RsnOf(r),
   d |-> [c \in CellNames(n) |-> PathDist(r, CellPos(c), pat)]]
\* the row of a record that the records table does not hold
ExtraDistRow(n) == [rsn |-> 5, d |-> [c \in CellNames(n) |-> 1]]
\* rows in an order of their own: the extra record, then the records from the
\* last to the first, the record `missing` (0: none) left out
MakeCelldist(N, n, pat, missing) ==
  LET Keep(r) == r # missing
      present == SelectSeq([i \in 1..N |-> N + 1 - i], Keep)
  IN [index |-> "", columns |-> {"rsn"} \cup CellNames(n),
      rows |-> <<ExtraDistRow(n)>> \o
               [i \in 1..Len(present) |-> DistRow(present[i], n, pat)]]

CellIdOf(j, scheme) == IF scheme = "position" THEN j - 1 ELSE j
MakeCellinfo(n, scheme) ==
  [index |-> "", columns |-> {"cellid", "cellname", "mptX", "mptY"},
   rows |-> [j \in 1..n |->
              [cellid |-> CellIdOf(j, scheme), cellname |-> CellNameSeq[j],
               mptX |-> 50 + j]]]

\* df.set_index(key, drop=True, inplace=True)
SetIndex(df, key) ==
  [df EXCEPT !.index = key, !.columns = df.columns \ {key}]

\* ------------------------------------------------------------------- state
VARIABLES
  pc, err, cfg,
  df_flatfile, df_celldist, df_cellinfo,     \* the caller's tables
  pickle,                                    \* the persisted fit file
  n_data, y_data,
  data_eq, eq_idx, eq_inv, eq_id, n_eq,
  data_sta, sta_idx, sta_inv, sta_id, n_sta,
  celldist_re,                               \* the local df_celldist, reindexed
  i_cells_valid, cell_ids_valid, cell_names_valid,
  celldist_valid, n_cell_valid, X_cells_valid,
  stan_data, stan_fit, df_stan_posterior_raw,
  df_catten_summary, df_coeffs_summary, df_predict_summary

callerVars == <<df_flatfile, df_celldist, df_cellinfo>>
indexVars ==
  <<n_data, y_data, data_eq, eq_idx, eq_inv, eq_id, n_eq,
    data_sta, sta_idx, sta_inv, sta_id, n_sta>>
cellVars ==
  <<celldist_re, i_cells_valid, cell_ids_valid, cell_names_valid,
    celldist_valid, n_cell_valid, X_cells_valid>>
postVars == <<df_stan_posterior_raw, df_catten_summary, df_coeffs_summary,
              df_predict_summary>>
vars == <<pc, err, cfg, callerVars, pickle, indexVars, cellVars,
          stan_data, stan_fit, postVars>>

NoFit == [ver |-> 0, par |-> <<>>]
NoData ==
  [N |-> 0, NEQ |-> 0, NSTAT |-> 0, NCELL |-> 0, eq |-> <<>>, stat |-> <<>>,
   X_e |-> <<>>, X_s |-> <<>>, X_c |-> <<>>, rec_mu |-> <<>>, RC |-> <<>>,
   Y |-> <<>>]
NoFrame == [columns |-> <<>>, data |-> EmptyArr]

\* the locals of a call before any stage has run
FreshLocals ==
  /\ n_data = 0 /\ y_data = <<>>
  /\ data_eq = <<>> /\ eq_idx = <<>> /\ eq_inv = <<>> /\ eq_id = <<>>
  /\ n_eq = 0
  /\ data_sta = <<>> /\ sta_idx = <<>> /\ sta_inv = <<>> /\ sta_id = <<>>
  /\ n_sta = 0
  /\ celldist_re = <<>> /\ i_cells_valid = <<>> /\ cell_ids_valid = <<>>
  /\ cell_names_valid = <<>> /\ celldist_valid = <<>> /\ n_cell_valid = 0
  /\ X_cells_valid = <<>>
  /\ stan_data = NoData /\ stan_fit = NoFit
  /\ df_stan_posterior_raw = NoFrame
  /\ df_catten_summary = <<>> /\ df_coeffs_summary = <<>>
  /\ df_predict_summary = <<>>

Init ==
  /\ pc = "idle" /\ err = ""
  /\ cfg = [runstan_flag |-> TRUE, pystan_ver |-> 2]
  /\ pickle = NoFit
  /\ \E N \in 1..MaxRec, n \in {Len(CellNameSeq)} :
       \E keys \in [1..N -> EqIds \X StaIds],
          pat \in [1..n -> CellPatterns],
          missing \in {0, N},
          scheme \in IdSchemes :
         /\ df_flatfile = MakeFlat(keys)
         /\ df_celldist = MakeCelldist(N, n, pat, missing)
         /\ df_cellinfo = MakeCellinfo(n, scheme)
  /\ FreshLocals

\* ----------------------------------------------------------------- stages
Fail(e) == pc' = "error" /\ err' = e

\* lines 27-95: RunStan is entered with its arguments; the key column of each
\* table is made its index, in place, unless it is the index already
Call(flag, ver) ==
  /\ pc \in {"idle", "done", "error"}
  /\ cfg' = [runstan_flag |-> flag, pystan_ver |-> ver]
  /\ df_flatfile' = IF df_flatfile.index # "rsn"
                    THEN SetIndex(df_flatfile, "rsn") ELSE df_flatfile
  /\ df_celldist' = IF df_celldist.index # "rsn"
                    THEN SetIndex(df_celldist, "rsn") ELSE df_celldist
  /\ df_cellinfo' = IF df_cellinfo.index # "cellid"
                    THEN SetIndex(df_cellinfo, "cellid") ELSE df_cellinfo
  /\ n_data' = 0 /\ y_data' = <<>>
  /\ data_eq' = <<>> /\ eq_idx' = <<>> /\ eq_inv' = <<>> /\ eq_id' = <<>>
  /\ n_eq' = 0
  /\ data_sta' = <<>> /\ sta_idx' = <<>> /\ sta_inv' = <<>> /\ sta_id' = <<>>
  /\ n_sta' = 0
  /\ celldist_re' = <<>> /\ i_cells_valid' = <<>> /\ cell_ids_valid' = <<>>
  /\ cell_names_valid' = <<>> /\ celldist_valid' = <<>> /\ n_cell_valid' = 0
  /\ X_cells_valid' = <<>>
  /\ stan_data' = NoData /\ stan_fit' = NoFit
  /\ df_stan_posterior_raw' = NoFrame
  /\ df_catten_summary' = <<>> /\ df_coeffs_summary' = <<>>
  /\ df_predict_summary' = <<>>
  /\ pc' = "index" /\ err' = ""
  /\ UNCHANGED pickle

\* lines 97-118: the Index Builder, for earthquakes and for stations
EqKeys(df) == [r \in 1..Len(df.rows) |-> df.rows[r].eqid]
StaKeys(df) == [r \in 1..Len(df.rows) |-> df.rows[r].ssn]
EqIdOf(inv) == AddOne(inv)
StaIdOf(inv) == AddOne(inv)
BuildIndex ==
  /\ pc = "index"
  /\ n_data' = Len(df_flatfile.rows)
  /\ eq_idx' = UniqueIndex(EqKeys(df_flatfile))
  /\ eq_inv' = UniqueInverse(EqKeys(df_flatfile))
  /\ data_eq' = Take(df_flatfile.rows, eq_idx')
  /\ eq_id' = EqIdOf(eq_inv')
  /\ n_eq' = Len(data_eq')
  /\ sta_idx' = UniqueIndex(StaKeys(df_flatfile))
  /\ sta_inv' = UniqueInverse(StaKeys(df_flatfile))
  /\ data_sta' = Take(df_flatfile.rows, sta_idx')
  /\ sta_id' = StaIdOf(sta_inv')
  /\ n_sta' = Len(data_sta')
  /\ y_data' = [r \in 1..Len(df_flatfile.rows) |-> df_flatfile.rows[r].res]
  /\ pc' = "cells"
  /\ UNCHANGED <<err, cfg, callerVars, pickle, cellVars, stan_data, stan_fit,
                 postVars>>

\* line 122: df_celldist.reindex(df_flatfile.index): one row per record of the
\* records table, in its order; a record without a row gets a row of NaN
DistColumns(df) == df.columns \ {"rsn"}
Reindex(df, keys) ==
  [r \in 1..Len(keys) |->
     IF \E i \in 1..Len(df.rows) : df.rows[i].rsn = keys[r]
     THEN LET i == CHOOSE i \in 1..Len(df.rows) : df.rows[i].rsn = keys[r]
          IN [c \in DistColumns(df) |-> F(df.rows[i].d[c])]
     ELSE [c \in DistColumns(df) |-> NaN]]
FlatIndex(df) == [r \in 1..Len(df.rows) |-> df.rows[r].rsn]

\* lines 125-126
CellIdsAll(info) == [j \in 1..Len(info.rows) |-> info.rows[j].cellid]
\* line 130: the 0-based positions of the columns whose sum, NaN skipped, is
\* positive (np.where gives them in ascending order)
ColumnSum(dist, name) ==
  FSumSkipNA([r \in 1..Len(dist) |-> dist[r][name]])
PositiveSum(dist, name) == FGt(ColumnSum(dist, name), F(0))
CellsValid(dist, info) ==
  LET Pos(j) == PositiveSum(dist, info.rows[j + 1].cellname)
  IN SelectSeq([j \in 1..Len(info.rows) |-> j - 1], Pos)
\* lines 132, 138: a Series or frame whose index is the integer cellid, given
\* an array of integers, looks them up as labels of the index
HasLabel(info, label) == \E j \in 1..Len(info.rows) : info.rows[j].cellid = label
RowAtLabel(info, label) ==
  info.rows[CHOOSE j \in 1..Len(info.rows) : info.rows[j].cellid = label]
CellNamesValid(info, i_valid) ==
  [k \in 1..Len(i_valid) |-> RowAtLabel(info, i_valid[k]).cellname]
\* line 133: celldist_all.loc[:, cell_names_valid]
SelectColumns(dist, names) ==
  [r \in 1..Len(dist) |-> [k \in 1..Len(names) |-> dist[r][names[k]]]]

\* lines 120-138: the Cell Network Filter
FilterCells ==
  /\ pc = "cells"
  /\ celldist_re' = Reindex(df_celldist, FlatIndex(df_flatfile))
  /\ IF \E j \in 1..Len(df_cellinfo.rows) :
          df_cellinfo.rows[j].cellname \notin DistColumns(df_celldist)
     THEN \* line 128: a cell name that is no column of the distance table
          /\ Fail("KeyError")
          /\ UNCHANGED <<i_cells_valid, cell_ids_valid, cell_names_valid,
                         celldist_valid, n_cell_valid, X_cells_valid>>
     ELSE
       /\ i_cells_valid' = CellsValid(celldist_re', df_cellinfo)
       /\ cell_ids_valid' = Take(CellIdsAll(df_cellinfo), i_cells_valid')
       /\ IF \E k \in 1..Len(i_cells_valid') :
               ~HasLabel(df_cellinfo, i_cells_valid'[k])
          THEN \* line 132: a position that is no label of the index
               /\ Fail("KeyError")
               /\ UNCHANGED <<cell_names_valid, celldist_valid, n_cell_valid,
                              X_cells_valid>>
          ELSE
            /\ cell_names_valid' = CellNamesValid(df_cellinfo, i_cells_valid')
            /\ celldist_valid' = SelectColumns(celldist_re', cell_names_valid')
            /\ n_cell_valid' = Len(cell_names_valid')
            /\ X_cells_valid' =
                 [k \in 1..Len(i_cells_valid') |->
                    RowAtLabel(df_cellinfo, i_cells_valid'[k])]
            /\ pc' = "payload" /\ UNCHANGED err
  /\ UNCHANGED <<cfg, callerVars, pickle, indexVars, stan_data, stan_fit,
                 postVars>>

\* lines 140-156: the payload for the sampler
AssemblePayload ==
  /\ pc = "payload"
  /\ stan_data' =
       [N |-> n_data, NEQ |-> n_eq, NSTAT |-> n_sta, NCELL |-> n_cell_valid,
        eq |-> eq_id, stat |-> sta_id,
        X_e |-> [k \in 1..Len(data_eq) |-> data_eq[k].eqX],
        X_s |-> [k \in 1..Len(data_sta) |-> data_sta[k].staX],
        X_c |-> [k \in 1..Len(X_cells_valid) |-> X_cells_valid[k].mptX],
        rec_mu |-> [r \in 1..Len(y_data) |-> 0],
        RC |-> celldist_valid,
        Y |-> y_data]
  /\ pc' = "fit"
  /\ UNCHANGED <<err, cfg, callerVars, pickle, indexVars, cellVars, stan_fit,
                 postVars>>

\* ------------------------------------------------------------ the sampler
\* The fit object of the external engine: one array per parameter.  PyStan 2
\* gives a scalar parameter as (draws,) and a per-group one as (draws, groups);
\* PyStan 3 gives (1, draws) and (groups, draws).  ver records which engine
\* made the fit; the program never reads it.
AllPars == col_names_hyp \o GroupPars
ParNo(name) == CHOOSE k \in 1..Len(AllPars) : AllPars[k] = name
\* the sample of parameter `name`, group g (0 for a scalar), draw d: a number
\* that tells the three apart, so that a column read for the wrong parameter,
\* group or axis shows
Sample(name, g, d) == NDraws * (100 * ParNo(name) + 10 * g + d * d)
NGroups(name, data) ==
  CASE name \in {"dc_1e", "dB"} -> data.NEQ
    [] name \in {"dc_1as", "dc_1bs"} -> data.NSTAT
    [] name = "c_cap" -> data.NCELL
    [] OTHER -> 1
FitArray(name, ver, data) ==
  LET G == NGroups(name, data)
      grp(g) == IF name \in Range(GroupPars) THEN g ELSE 0
  IN IF ver = 2
     THEN [nrow |-> NDraws, ncol |-> G,
           at |-> [d \in 1..NDraws |->
                     [g \in 1..G |-> Sample(name, grp(g), d)]]]
     ELSE [nrow |-> G, ncol |-> NDraws,
           at |-> [g \in 1..G |->
                     [d \in 1..NDraws |-> Sample(name, grp(g), d)]]]
MakeFit(ver, data) ==
  [ver |-> ver,
   par |-> [name \in Range(AllPars) |-> FitArray(name, ver, data)]]

\* lines 167-199: compile, sample, persist the fit
RunSampler ==
  /\ pc = "fit" /\ cfg.runstan_flag
  /\ stan_fit' = MakeFit(cfg.pystan_ver, stan_data)
  /\ pickle' = stan_fit'
  /\ pc' = "extract"
  /\ UNCHANGED <<err, cfg, callerVars, indexVars, cellVars, stan_data,
                 postVars>>

\* lines 174-194: the engine raises (compile or runtime failure)
SamplerFails ==
  /\ pc = "fit" /\ cfg.runstan_flag
  /\ Fail("SamplerError")
  /\ UNCHANGED <<cfg, callerVars, pickle, indexVars, cellVars, stan_data,
                 stan_fit, postVars>>

\* lines 200-206: read the fit a past run persisted
LoadFit ==
  /\ pc = "fit" /\ ~cfg.runstan_flag
  /\ IF pickle = NoFit
     THEN Fail("FileNotFoundError") /\ UNCHANGED stan_fit
     ELSE stan_fit' = pickle /\ pc' = "extract" /\ UNCHANGED err
  /\ UNCHANGED <<cfg, callerVars, pickle, indexVars, cellVars, stan_data,
                 postVars>>

\* ------------------------------------------------- the Posterior Extractor
\* lines 218-223: 'dc_1e.%i' % k is the pair <<"dc_1e", k>>; a hyperparameter
\* name has no number and is <<name, -1>>
Numbered(base, ks) == [i \in 1..Len(ks) |-> <<base, ks[i]>>]
UpTo(n) == [i \in 1..n |-> i - 1]
ColNamesHyp == [k \in 1..Len(col_names_hyp) |-> <<col_names_hyp[k], -1>>]
ColNamesAll(neq, nsta, cell_ids) ==
  ColNamesHyp \o Numbered("dc_1e", UpTo(neq)) \o Numbered("dc_1as", UpTo(nsta))
    \o Numbered("dc_1bs", UpTo(nsta)) \o Numbered("c_cap", cell_ids)
    \o Numbered("dB", UpTo(neq))
\* line 226
HypVectors(fit) ==
  [k \in 1..Len(col_names_hyp) |-> Flatten(fit.par[col_names_hyp[k]])]
\* lines 228-239: the array as read under the version selector of this run
ReadBlock(fit, name, ver) ==
  IF ver = 2 THEN fit.par[name] ELSE Transpose(fit.par[name])
BlockOrder == <<"dc_1e", "dc_1as", "dc_1bs", "c_cap", "dB">>
RECURSIVE ConcatBlocks(_, _, _, _)
ConcatBlocks(acc, fit, names, ver) ==
  IF names = <<>> THEN acc
  ELSE ConcatBlocks(Concat1(acc, ReadBlock(fit, names[1], ver)), fit,
                    Tail(names), ver)
Pooled(fit, ver) ==
  ConcatBlocks(Stack1(HypVectors(fit), Len(HypVectors(fit)[1])), fit,
               BlockOrder, ver)
\* np.stack and np.concatenate raise unless the lengths along axis 0 agree
ShapesAgree(fit, ver) ==
  /\ \A k \in 1..Len(col_names_hyp) :
       Len(HypVectors(fit)[k]) = Len(HypVectors(fit)[1])
  /\ \A k \in 1..Len(BlockOrder) :
       ReadBlock(fit, BlockOrder[k], ver).nrow = Len(HypVectors(fit)[1])

\* lines 208-243
ExtractPosterior ==
  /\ pc = "extract"
  /\ IF ~ShapesAgree(stan_fit, cfg.pystan_ver)
     THEN Fail("ValueError") /\ UNCHANGED df_stan_posterior_raw
     ELSE LET names == ColNamesAll(n_eq, n_sta, cell_ids_valid)
              data == Pooled(stan_fit, cfg.pystan_ver)
          IN IF data.ncol # Len(names)
             THEN \* line 242: as many names as columns, or pandas raises
                  Fail("ValueError") /\ UNCHANGED df_stan_posterior_raw
             ELSE /\ df_stan_posterior_raw' = [columns |-> names, data |-> data]
                  /\ pc' = "synth" /\ UNCHANGED err
  /\ UNCHANGED <<cfg, callerVars, pickle, indexVars, cellVars, stan_data,
                 stan_fit, df_catten_summary, df_coeffs_summary,
                 df_predict_summary>>

\* ------------------------------------------------ the Coefficient Synthesizer
\* df.loc[:, name]: the column of that name
ColNo(df, name) == CHOOSE p \in 1..Len(df.columns) : df.columns[p] = name
Col(df, name) == Column(df.data, ColNo(df, name))
\* the samples are multiples of the number of draws: the divisions are exact
Mean(col) == SeqSum(col) \div Len(col)
Median(col) ==
  LET s == Sort(col)
      n == Len(col)
  IN IF n % 2 = 1 THEN s[(n + 1) \div 2]
     ELSE (s[n \div 2] + s[n \div 2 + 1]) \div 2
\* Series.std() is sqrt(SumSqDev / (n - 1)); the model keeps SumSqDev, of which
\* the standard deviation is a strictly increasing function
SumSqDev(col) ==
  SeqSum([i \in 1..Len(col) |-> (col[i] - Mean(col)) * (col[i] - Mean(col))])
Summary(col) == [mu |-> Mean(col), med |-> Median(col), sig |-> SumSqDev(col)]
\* the summaries of the columns base.k, one per listed number k
Summaries(df, base, ks) ==
  [i \in 1..Len(ks) |-> Summary(Col(df, <<base, ks[i]>>))]
\* a variant of Broadcast: a[inv - 1], the index one too small (Python takes
\* -1 for the last element)
BroadcastOneBelow(a, inv) ==
  [r \in 1..Len(inv) |-> a[((inv[r] - 1) % Len(a)) + 1]]
\* a[inv]: the group value of each record
Broadcast(a, inv) == Take(a, inv)
\* lines 276-278: celldist_valid.values @ v; NaN is not skipped
MatVec(dist, v) ==
  [r \in 1..Len(dist) |->
     FSum([k \in 1..Len(v) |-> FMul(dist[r][k], F(v[k]))])]
MatVecSq(dist, v) ==
  [r \in 1..Len(dist) |->
     FSum([k \in 1..Len(v) |->
             FMul(FMul(dist[r][k], dist[r][k]), F(v[k]))])]
Field(recs, f) == [k \in 1..Len(recs) |-> recs[k][f]]

\* lines 263-353
Synthesize ==
  /\ pc = "synth"
  /\ LET df == df_stan_posterior_raw
         ca == Summaries(df, "c_cap", cell_ids_valid)
         c0 == Summary(Col(df, <<"dc_0", -1>>))
         c1e == Broadcast(Summaries(df, "dc_1e", UpTo(n_eq)), eq_inv)
         c1as == Broadcast(Summaries(df, "dc_1as", UpTo(n_sta)), sta_inv)
         c1bs == Broadcast(Summaries(df, "dc_1bs", UpTo(n_sta)), sta_inv)
         LcA_mu == MatVec(celldist_valid, Field(ca, "mu"))
         LcA_med == MatVec(celldist_valid, Field(ca, "med"))
         LcA_sig == MatVecSq(celldist_valid, Field(ca, "sig"))
     IN /\ df_catten_summary' =
             [k \in 1..Len(cell_ids_valid) |->
                [cellid |-> cell_ids_valid[k],
                 cellname |-> RowAtLabel(df_cellinfo, cell_ids_valid[k]).cellname,
                 c_cap_mean |-> ca[k].mu, c_cap_med |-> ca[k].med,
                 c_cap_sig |-> ca[k].sig]]
        /\ df_coeffs_summary' =
             [r \in 1..n_data |->
                [rsn |-> df_flatfile.rows[r].rsn,
                 eqid |-> df_flatfile.rows[r].eqid,
                 ssn |-> df_flatfile.rows[r].ssn,
                 dc_0_mean |-> c0.mu, dc_0_med |-> c0.med, dc_0_sig |-> c0.sig,
                 dc_1e_mean |-> c1e[r].mu, dc_1e_med |-> c1e[r].med,
                 dc_1e_sig |-> c1e[r].sig,
                 dc_1as_mean |-> c1as[r].mu, dc_1as_med |-> c1as[r].med,
                 dc_1as_sig |-> c1as[r].sig,
                 dc_1bs_mean |-> c1bs[r].mu, dc_1bs_med |-> c1bs[r].med,
                 dc_1bs_sig |-> c1bs[r].sig,
                 Lc_ca_mean |-> LcA_mu[r], Lc_ca_med |-> LcA_med[r],
                 Lc_ca_sig |-> LcA_sig[r]]]
  /\ pc' = "resid"
  /\ UNCHANGED <<err, cfg, callerVars, pickle, indexVars, cellVars, stan_data,
                 stan_fit, df_stan_posterior_raw, df_predict_summary>>

\* --------------------------------------------------- the Residual Decomposer
\* line 358
MeanPrediction(c) ==
  FAdd(F(c.dc_0_mean + c.dc_1e_mean + c.dc_1as_mean + c.dc_1bs_mean),
       c.Lc_ca_mean)
\* line 361
ResTot(y, y_mu) == FSub(F(y), y_mu)
\* lines 363-364
ResBetween(df, neq, inv) ==
  Broadcast([k \in 1..neq |-> Mean(Col(df, <<"dB", k - 1>>))], inv)
\* line 365
ResWithin(res_tot, res_between) == FSub(res_tot, F(res_between))

\* lines 355-374
Decompose ==
  /\ pc = "resid"
  /\ LET res_between == ResBetween(df_stan_posterior_raw, n_eq, eq_inv)
         y_mu == [r \in 1..n_data |-> MeanPrediction(df_coeffs_summary[r])]
         res_tot == [r \in 1..n_data |-> ResTot(y_data[r], y_mu[r])]
     IN df_predict_summary' =
          [r \in 1..n_data |->
             [rsn |-> df_flatfile.rows[r].rsn,
              nerg_mu |-> y_mu[r], res_tot |-> res_tot[r],
              res_between |-> res_between[r],
              res_within |-> ResWithin(res_tot[r], res_between[r])]]
  /\ pc' = "done"
  /\ UNCHANGED <<err, cfg, callerVars, pickle, indexVars, cellVars, stan_data,
                 stan_fit, df_stan_posterior_raw, df_catten_summary,
                 df_coeffs_summary>>

Next ==
  \/ \E flag \in BOOLEAN, ver \in {2, 3} : Call(flag, ver)
  \/ BuildIndex
  \/ FilterCells
  \/ AssemblePayload
  \/ RunSampler
  \/ SamplerFails
  \/ LoadFit
  \/ ExtractPosterior
  \/ Synthesize
  \/ Decompose

Spec == Init /\ [][Next]_vars

\* ================================================================== claims
\* which stages of the call in progress have completed
Built == n_data > 0
Filtered == celldist_re # <<>> /\ err # "KeyError"
Assembled == stan_data.N > 0
PosteriorBuilt == pc \in {"synth", "resid", "done"}
Summarised == pc \in {"resid", "done"}
Records == 1..Len(df_flatfile.rows)

\* ---------------------------------------------------------------------- C1
DenseIndex(inv, n, keys) ==
  /\ Len(inv) = Len(keys)
  /\ \A r \in 1..Len(keys) : inv[r] \in 0..(n - 1)
  /\ \A r, q \in 1..Len(keys) : (keys[r] = keys[q]) <=> (inv[r] = inv[q])
  /\ n = Cardinality(Range(keys))
  /\ \A k \in 0..(n - 1) : \E r \in 1..Len(keys) : inv[r] = k

\* C1: once the Index Builder has run, every record's 0-based earthquake index
\* lies in [0, n_eq) and its station index in [0, n_sta); equal keys have equal
\* indices and distinct keys distinct indices; n_eq and n_sta are the numbers
\* of distinct keys, so every index of the range is used.
C1_DenseConsistentIndices ==
  Built =>
    /\ DenseIndex(eq_inv, n_eq, EqKeys(df_flatfile))
    /\ DenseIndex(sta_inv, n_sta, StaKeys(df_flatfile))

\* C1 witness: three records, two of them of one earthquake, two stations
C1_Witness ==
  /\ Built /\ n_data = 3 /\ n_eq = 2 /\ n_sta = 2
  /\ df_flatfile.rows[1].eqid = df_flatfile.rows[3].eqid
  /\ df_flatfile.rows[1].eqid # df_flatfile.rows[2].eqid

\* ---------------------------------------------------------------------- C2
\* C2: for every record of the residual table, total residual == inter-event
\* residual + intra-event residual (the comparison of floats: NaN equals
\* nothing).
C2_ResidualIdentity ==
  pc = "done" =>
    \A r \in 1..Len(df_predict_summary) :
      LET p == df_predict_summary[r]
      IN FEq(p.res_tot, FAdd(F(p.res_between), p.res_within))

\* ---------------------------------------------------------------------- C3
\* the names of the cell-metadata table, in its order, whose distance summed
\* over the records of the re-aligned table is positive
PositiveCells ==
  LET Pos(name) == PositiveSum(celldist_re, name)
  IN SelectSeq(Field(df_cellinfo.rows, "cellname"), Pos)

\* C3: the Cell Network Filter keeps exactly the cells whose total distance
\* over the re-aligned table is positive, in the order of the cell-metadata
\* table, and NCELL is their number.
C3_FilterKeepsPositiveCells ==
  Filtered =>
    /\ cell_names_valid = PositiveCells
    /\ n_cell_valid = Len(PositiveCells)
    /\ Assembled => stan_data.NCELL = Len(PositiveCells)

\* ---------------------------------------------------------------------- C4
\* what the engine that made the fit sampled for parameter `name`, group g
\* (1-based, as the engine counts), over the draws
FitDraws(fit, name, g) ==
  LET A == fit.par[name]
  IN IF fit.ver = 2 THEN [d \in 1..A.nrow |-> A.at[d][g]]
     ELSE [d \in 1..A.ncol |-> A.at[g][d]]
\* the column of the payload distance matrix that holds the cell of that id
RCColumnOfCell(id) ==
  CHOOSE j \in 1..Len(cell_names_valid) :
    cell_names_valid[j] = RowAtLabel(df_cellinfo, id).cellname
CellInPayload(id) ==
  /\ HasLabel(df_cellinfo, id)
  /\ \E j \in 1..Len(cell_names_valid) :
       cell_names_valid[j] = RowAtLabel(df_cellinfo, id).cellname
NamedDraws(name) ==
  IF name[2] = -1 THEN FitDraws(stan_fit, name[1], 1)
  ELSE IF name[1] = "c_cap"
       THEN FitDraws(stan_fit, "c_cap", RCColumnOfCell(name[2]))
       ELSE FitDraws(stan_fit, name[1], name[2] + 1)

\* C4: the pooled matrix has the 12 hyperparameters, then dc_1e (n_eq), dc_1as
\* (n_sta), dc_1bs (n_sta), c_cap (n_cell_valid), dB (n_eq); the names are in
\* that order and as many as the columns; the column of a name holds the
\* samples of the parameter and group (earthquake, station, cell) it names.
C4_ColumnOrderAndNames ==
  PosteriorBuilt =>
    LET df == df_stan_posterior_raw
    IN /\ Len(df.columns) = NHyp + n_eq + n_sta + n_sta + n_cell_valid + n_eq
       /\ Len(df.columns) = df.data.ncol
       /\ \A k \in 1..NHyp : df.columns[k] = <<col_names_hyp[k], -1>>
       /\ \A k \in 1..n_eq :
            /\ df.columns[NHyp + k] = <<"dc_1e", k - 1>>
            /\ df.columns[NHyp + n_eq + 2 * n_sta + n_cell_valid + k]
                 = <<"dB", k - 1>>
       /\ \A k \in 1..n_sta :
            /\ df.columns[NHyp + n_eq + k] = <<"dc_1as", k - 1>>
            /\ df.columns[NHyp + n_eq + n_sta + k] = <<"dc_1bs", k - 1>>
       /\ \A k \in 1..n_cell_valid :
            /\ df.columns[NHyp + n_eq + 2 * n_sta + k][1] = "c_cap"
            /\ CellInPayload(df.columns[NHyp + n_eq + 2 * n_sta + k][2])
       /\ \A p \in 1..Len(df.columns) :
            Column(df.data, p) = NamedDraws(df.columns[p])

\* ---------------------------------------------------------------------- C5
HasDistanceRow(r) ==
  \E i \in 1..Len(df_celldist.rows) :
    df_celldist.rows[i].rsn = df_flatfile.rows[r].rsn

\* C5: no payload is built when a record of the records table has no row in
\* the cell-distance table (the call fails instead).
C5_NoPayloadFromMissingRows ==
  Assembled => \A r \in Records : HasDistanceRow(r)

\* ---------------------------------------------------------------------- C6
\* the keys without their repetitions, in order of first occurrence
RECURSIVE FirstOccurrences(_, _)
FirstOccurrences(keys, seen) ==
  IF keys = <<>> THEN <<>>
  ELSE IF keys[1] \in seen THEN FirstOccurrences(Tail(keys), seen)
  ELSE <<keys[1]>> \o FirstOccurrences(Tail(keys), seen \cup {keys[1]})
PositionIn(list, key) == CHOOSE k \in 1..Len(list) : list[k] = key
InListOrder(list, rows, idx, inv, keys) ==
  /\ [k \in 1..Len(rows) |-> keys[idx[k] + 1]] = list
  /\ \A r \in 1..Len(keys) : inv[r] = PositionIn(list, keys[r]) - 1

\* C6 as claimed: the deduplicated keys, and with them the rows of X_e and
\* X_s, are in order of first occurrence in the records table, and a record's
\* index is the position of its key in that list.
C6_FirstOccurrenceOrder ==
  Built =>
    /\ InListOrder(FirstOccurrences(EqKeys(df_flatfile), {}), data_eq, eq_idx,
                   eq_inv, EqKeys(df_flatfile))
    /\ InListOrder(FirstOccurrences(StaKeys(df_flatfile), {}), data_sta,
                   sta_idx, sta_inv, StaKeys(df_flatfile))

AscendingGroups(rows, idx, inv, keys, f) ==
  /\ Len(idx) = Len(rows)
  /\ \A k, l \in 1..Len(rows) : k < l => rows[k][f] < rows[l][f]
  /\ {rows[k][f] : k \in 1..Len(rows)} = Range(keys)
  /\ \A k \in 1..Len(rows) :
       /\ rows[k] = df_flatfile.rows[idx[k] + 1]
       /\ \A q \in 1..idx[k] : keys[q] # rows[k][f]
  /\ \A r \in 1..Len(keys) : rows[inv[r] + 1][f] = keys[r]

\* C6 amended: the deduplicated keys are in ascending order of the key; the
\* row of a group (and so its row of X_e or X_s) is that of the first record
\* with the key; a record's 0-based index is the position of its key in the
\* ascending list.
C6_AscendingKeyOrder ==
  /\ Built =>
       /\ AscendingGroups(data_eq, eq_idx, eq_inv, EqKeys(df_flatfile), "eqid")
       /\ AscendingGroups(data_sta, sta_idx, sta_inv, StaKeys(df_flatfile),
                          "ssn")
  /\ Assembled =>
       /\ stan_data.X_e = Field(data_eq, "eqX")
       /\ stan_data.X_s = Field(data_sta, "staX")

\* C6 witness: the first record's earthquake key is the larger one, and the
\* payload is built
C6_Witness ==
  /\ Assembled /\ n_data >= 2 /\ n_eq = 2
  /\ df_flatfile.rows[1].eqid > df_flatfile.rows[2].eqid

\* ---------------------------------------------------------------------- C7
\* the summary of the posterior column of 0-based number c
SummaryOfColumnNo(c) == Summary(Column(df_stan_posterior_raw.data, c + 1))
TermOf(row, term) ==
  [mu |-> row[term \o "_mean"], med |-> row[term \o "_med"],
   sig |-> row[term \o "_sig"]]

AttenuationOverPositiveCells(r) ==
  FSum([k \in 1..Len(PositiveCells) |->
          LET name == PositiveCells[k]
              id == (CHOOSE j \in 1..Len(df_cellinfo.rows) :
                       df_cellinfo.rows[j].cellname = name)
              cell == df_cellinfo.rows[id]
          IN FMul(celldist_re[r][name],
                  F(Mean(Col(df_stan_posterior_raw, <<"c_cap", cell.cellid>>))))])

\* C8: nerg_mu of a record is the sum of its term means: constant shift,
\* earthquake term, the two station terms, and the distance-weighted sum of
\* the cell coefficient means over the cells of positive total distance; a
\* cell of zero total distance is not counted in NCELL.
C8_MeanPredictionIsSumOfTerms ==
  pc = "done" =>
    /\ stan_data.NCELL = Len(PositiveCells)
    /\ \A k \in 1..Len(cell_names_valid) :
         PositiveSum(celldist_re, cell_names_valid[k])
    /\ \A r \in Records :
         LET c == df_coeffs_summary[r]
         IN FEq(df_predict_summary[r].nerg_mu,
                FAdd(F(c.dc_0_mean + c.dc_1e_mean + c.dc_1as_mean
                         + c.dc_1bs_mean),
                     AttenuationOverPositiveCells(r)))

\* ---------------------------------------------------------------------- C9
\* C9: no step of a run changes a table of the caller.
C9_CallerTablesUnchanged == [][callerVars' = callerVars]_vars

\* --------------------------------------------------------------------- C10
\* the extractor has run on a fit
ExtractorRan ==
  /\ stan_fit # NoFit
  /\ \/ PosteriorBuilt
     \/ pc = "error" /\ err = "ValueError"
BlockOffset(name) ==
  CASE name = "dc_1e" -> NHyp
    [] name = "dc_1as" -> NHyp + n_eq
    [] name = "dc_1bs" -> NHyp + n_eq + n_sta
    [] name = "c_cap" -> NHyp + n_eq + 2 * n_sta
    [] name = "dB" -> NHyp + n_eq + 2 * n_sta + n_cell_valid

\* C10: whatever engine version made the fit, sampled in this run or loaded
\* from a past one, the extractor yields a pooled matrix whose rows are the
\* draws: each column of a per-group block holds the draws of one group.
C10_DrawsAreRows ==
  ExtractorRan =>
    /\ PosteriorBuilt
    /\ df_stan_posterior_raw.data.nrow = NDraws
    /\ \A b \in 1..Len(BlockOrder) :
         \A g \in 1..NGroups(BlockOrder[b], stan_data) :
           Column(df_stan_posterior_raw.data, BlockOffset(BlockOrder[b]) + g)
             = FitDraws(stan_fit, BlockOrder[b], g)

\* --------------------------------------------------------------------- C11
\* the rows of the cell-metadata table a kept position refers to: by the name
\* of its distance column, by its coordinates, by its identifier
CellRowsByName(name) ==
  {p \in 1..Len(df_cellinfo.rows) : df_cellinfo.rows[p].cellname = name}
CellRowsByCoordinate(x) ==
  {p \in 1..Len(df_cellinfo.rows) : df_cellinfo.rows[p].mptX = x}
CellRowsById(id) ==
  {p \in 1..Len(df_cellinfo.rows) : df_cellinfo.rows[p].cellid = id}

\* C11: at every position j of the filtered cell set, the j-th column of RC,
\* the j-th row of X_c, the j-th identifier that names the posterior column
\* c_cap.<id>, and the j-th row of the cell attenuation summary are all of one
\* and the same cell of the cell-metadata table.
C11_FilteredCellsAligned ==
  /\ Filtered =>
       /\ Len(cell_ids_valid) = n_cell_valid
       /\ Len(X_cells_valid) = n_cell_valid
       /\ \A j \in 1..n_cell_valid :
            /\ CellRowsByName(cell_names_valid[j])
                 = CellRowsById(cell_ids_valid[j])
            /\ CellRowsByCoordinate(X_cells_valid[j].mptX)
                 = CellRowsById(cell_ids_valid[j])
  /\ Assembled =>
       \A j \in 1..stan_data.NCELL :
         CellRowsByCoordinate(stan_data.X_c[j])
           = CellRowsByName(cell_names_valid[j])
  /\ PosteriorBuilt =>
       \A j \in 1..n_cell_valid :
         df_stan_posterior_raw.columns[BlockOffset("c_cap") + j]
           = <<"c_cap", cell_ids_valid[j]>>
  /\ Summarised =>
       /\ Len(df_catten_summary) = n_cell_valid
       /\ \A j \in 1..n_cell_valid :
            /\ CellRowsById(df_catten_summary[j].cellid)
                 = CellRowsByName(cell_names_valid[j])
            /\ df_catten_summary[j].cellname = cell_names_valid[j]

====
